---------------------------- MODULE Spec2Model ----------------------------
(***************************************************************************)
(* queuectl: a file-backed job queue (src/main.py).                        *)
(*                                                                         *)
(* Two JSON files hold the Job Store (jobs.json) and the Dead-Letter Store *)
(* (dlq.json).  Every access is a whole-file load or a whole-file save.    *)
(* The worker loop (worker_start) and the CLI commands (enqueue, dlq       *)
(* retry) are separate OS processes; each is modelled as a sequence of     *)
(* steps, one step per file access, with its Python locals as variables.   *)
(***************************************************************************)
EXTENDS Integers, Sequences, FiniteSets, TLC

(***************************************************************************)
(* Bounds of the model.                                                    *)
(***************************************************************************)
MaxJobs == 2          \* job ids are 1..MaxJobs
MaxCount == 2         \* worker start --count ranges over 1..MaxCount
MaxRetriesIn == 2     \* caller-supplied max_retries ranges over 1..MaxRetriesIn
MaxAttemptsIn == 1    \* caller-supplied attempts ranges over 0..MaxAttemptsIn
MaxRawCmds == 2       \* CLI commands started in a run with raw job descriptions
MaxCmds == 3          \* CLI commands started in a run with racing file accesses
MaxClock == 2         \* the clock reads 0..MaxClock
MaxBackoffAttempts == 7   \* calculate_backoff_delay: attempts ranges over 0..MaxBackoffAttempts
MaxBackoffBase == 7   \* calculate_backoff_delay: backoff_base ranges over 1..MaxBackoffBase

(***************************************************************************)
(* Program constants.                                                      *)
(***************************************************************************)
DefaultMaxRetries == 3    \* load_config() default "max_retries"

Ids == 1..MaxJobs
Workers == {"w1", "w2"}
States == {"pending", "processing", "completed", "failed", "dead"}
\* Command strings, by what running them does: "true" stands for a command
\* that exits 0, "false" for one that never does (it exits non-zero, outlives
\* the 30 s timeout, or cannot be run).
Commands == {"true", "false"}
\* A 'command' value that is no string (json.loads gives a number, a list, ...).
NotAString == "<not a string>"
\* What subprocess.run gives process_job: a return code, TimeoutExpired, or
\* another exception (the runner itself failing).
Results == {"exit0", "nonzero", "timeout", "fault"}

VARIABLES
    jobsFile,    \* jobs.json: sequence of job records
    dlqFile,     \* dlq.json: sequence of job records
    clock,       \* the time get_current_timestamp() reads
    wpc,         \* worker: position in worker_start
    wcount,      \* worker: the --count option
    wjobs,       \* worker: local `jobs` (and `alive_jobs` inside move_dead_jobs)
    wsel,        \* worker: pending_jobs[:count], as indices into wjobs (the dicts are shared)
    wk,          \* worker: position of the for loop in wsel
    wdlq,        \* worker: local `dlq` of move_dead_jobs
    wresult,     \* worker: outcome of the last subprocess.run
    wdied,       \* history: ids process_job made dead in the worker's current cycle
    cpc,         \* CLI command: position
    cjob,        \* CLI command: job_data (enqueue) / job_to_retry (dlq retry)
    cjobs,       \* CLI command: local `jobs`
    cdead,       \* CLI command: local `dead_jobs`
    cjson,       \* CLI command: the job_json argument of enqueue
    carg,        \* CLI command: the job_id argument of dlq retry (0: none)
    cout,        \* CLI command: what it reported: "none", "ok", "error"
    issued,      \* ids given out so far (caller-supplied or uuid4)
    cmdsLeft,    \* CLI commands the environment may still start (-1: any number)
    h0jobs,      \* history: jobs.json when the current CLI command started
    h0dlq,       \* history: dlq.json when the current CLI command started
    battempts,   \* a call of calculate_backoff_delay: its argument attempts
    bbase,       \* a call of calculate_backoff_delay: its argument backoff_base
    bdelay       \* a call of calculate_backoff_delay: its return value (-1: not returned yet)

wvars == <<wpc, wcount, wjobs, wsel, wk, wdlq, wresult, wdied>>
cvars == <<cpc, cjob, cjobs, cdead, cjson, carg, cout, issued, cmdsLeft, h0jobs, h0dlq>>
bvars == <<battempts, bbase, bdelay>>
vars == <<jobsFile, dlqFile, clock, wvars, cvars, bvars>>

(***************************************************************************)
(* Helpers.                                                                *)
(***************************************************************************)
Min(a, b) == IF a <= b THEN a ELSE b

\* s[:n] of Python, n >= 0
Take(s, n) == SubSeq(s, 1, Min(n, Len(s)))

\* [x for x in s if P(x)]
IdsOf(s) == {s[i].id : i \in 1..Len(s)}

NoJob == [id |-> 0, command |-> "", state |-> "", attempts |-> 0,
          max_retries |-> 0, created_at |-> 0, updated_at |-> 0]

get_current_timestamp == clock


(***************************************************************************)
(* Lifecycle engine: process_job on a job already marked "processing".     *)
(* Only the exit-status branches refresh updated_at.                       *)
(***************************************************************************)
\* Mutant: a runner fault adds to attempts and leaves the state as it is.
process_job_keep(job, result) ==
    IF result = "exit0"
    THEN [job EXCEPT !.state = "completed", !.updated_at = get_current_timestamp]
    ELSE LET j1 == [job EXCEPT !.attempts = @ + 1]
             st == IF j1.attempts >= j1.max_retries THEN "dead" ELSE "failed"
         IN  IF result = "nonzero"
             THEN [j1 EXCEPT !.state = st, !.updated_at = get_current_timestamp]
             ELSE IF result = "timeout" THEN [j1 EXCEPT !.state = st] ELSE j1

\* Mutant: the retry budget compared with > instead of >=.
process_job_gt(job, result) ==
    IF result = "exit0"
    THEN [job EXCEPT !.state = "completed", !.updated_at = get_current_timestamp]
    ELSE LET j1 == [job EXCEPT !.attempts = @ + 1]
             st == IF j1.attempts > j1.max_retries THEN "dead" ELSE "failed"
         IN  IF result = "nonzero"
             THEN [j1 EXCEPT !.state = st, !.updated_at = get_current_timestamp]
             ELSE [j1 EXCEPT !.state = st]

\* Mutant: a success clears the attempts counter.
process_job_clear(job, result) ==
    IF result = "exit0"
    THEN [job EXCEPT !.state = "completed", !.attempts = 0,
                     !.updated_at = get_current_timestamp]
    ELSE LET j1 == [job EXCEPT !.attempts = @ + 1]
             st == IF j1.attempts >= j1.max_retries THEN "dead" ELSE "failed"
         IN  IF result = "nonzero"
             THEN [j1 EXCEPT !.state = st, !.updated_at = get_current_timestamp]
             ELSE [j1 EXCEPT !.state = st]

process_job(job, result) ==
    IF result = "exit0"
    THEN [job EXCEPT !.state = "completed", !.updated_at = get_current_timestamp]
    ELSE LET j1 == [job EXCEPT !.attempts = @ + 1]
             st == IF j1.attempts >= j1.max_retries THEN "dead" ELSE "failed"
         IN  IF result = "nonzero"
             THEN [j1 EXCEPT !.state = st, !.updated_at = get_current_timestamp]
             ELSE [j1 EXCEPT !.state = st]

(***************************************************************************)
(* Backoff policy: backoff_base ** attempts, on Python integers (unbounded) *)
(* with attempts >= 0: 1 multiplied attempts times by backoff_base.        *)
(* process_job computes it for the message of a failed job (line 413);     *)
(* nothing waits for the delay.                                            *)
(***************************************************************************)
\* Mutant: a linear delay, backoff_base * attempts.
calculate_backoff_delay_linear(attempts, backoff_base) == backoff_base * attempts

RECURSIVE calculate_backoff_delay(_, _)
calculate_backoff_delay(attempts, backoff_base) ==
    IF attempts = 0 THEN 1
    ELSE backoff_base * calculate_backoff_delay(attempts - 1, backoff_base)

\* What subprocess.run can give for a command.
Outcomes(command) ==
    IF command = "true" THEN {"exit0"} ELSE {"nonzero", "timeout", "fault"}

(***************************************************************************)
(* Worker selection: pending_jobs = [j for j in jobs if state == pending], *)
(* then pending_jobs[:count].  The list holds the same dicts as `jobs`, so *)
(* it is kept as indices into jobs.                                        *)
(***************************************************************************)
PendingIdx(jobs) ==
    SelectSeq([i \in 1..Len(jobs) |-> i], LAMBDA i : jobs[i].state = "pending")

\* Mutant: the slice taken from the end, pending_jobs[-count:].
SelectedFromEnd(pending_jobs, count) ==
    SubSeq(pending_jobs, Len(pending_jobs) - Min(count, Len(pending_jobs)) + 1,
           Len(pending_jobs))

\* Mutant: an empty slice, pending_jobs[:count - 1] with count 1.
SelectedShort(pending_jobs, count) == Take(pending_jobs, count - 1)

Selected(pending_jobs, count) == Take(pending_jobs, count)

(***************************************************************************)
(* move_dead_jobs: the partition of the reloaded jobs.                     *)
(***************************************************************************)
\* Mutant: the partition keeps every record in the Job Store.
AliveOfAll(jobs) == jobs

IsDead(job) == job.state = "dead"
IsAlive(job) == job.state # "dead"

DeadOf(jobs) == SelectSeq(jobs, IsDead)
AliveOf(jobs) == SelectSeq(jobs, IsAlive)

(***************************************************************************)
(* enqueue: the job description and the record built from it.              *)
(* A job_json is [parse, has, id, command, state, attempts, max_retries]:  *)
(* parse is "bad" (json.loads raises), "nonobject" (valid JSON that is no  *)
(* object) or "object"; has is the set of keys present.                    *)
(***************************************************************************)
Json(parse, has, id, command, state, attempts, max_retries) ==
    [parse |-> parse, has |-> has, id |-> id, command |-> command,
     state |-> state, attempts |-> attempts, max_retries |-> max_retries]

NoJson == Json("none", {}, 0, "", "", 0, 0)

\* Mutant: the required-field check looks for 'id'.
HasCommandAsId(j) == "id" \in j.has

HasCommand(j) == "command" \in j.has

\* lines 108-121: defaults for the keys the caller left out
BuildJob(j, id) ==
    [id |-> id,
     command |-> j.command,
     state |-> IF "state" \in j.has THEN j.state ELSE "pending",
     attempts |-> IF "attempts" \in j.has THEN j.attempts ELSE 0,
     max_retries |-> IF "max_retries" \in j.has THEN j.max_retries
                     ELSE DefaultMaxRetries,
     created_at |-> get_current_timestamp,
     updated_at |-> get_current_timestamp]

(***************************************************************************)
(* dlq retry: the first record of dead_jobs with the id, reset.            *)
(***************************************************************************)
HasId(s, id) == \E i \in 1..Len(s) : s[i].id = id

FirstWithId(s, id) ==
    s[CHOOSE i \in 1..Len(s) :
        /\ s[i].id = id
        /\ \A k \in 1..(i - 1) : s[k].id # id]

\* Mutant: the requeue forgets to reset attempts.
RetryResetStateOnly(job) ==
    [job EXCEPT !.state = "pending", !.updated_at = get_current_timestamp]

RetryReset(job) ==
    [job EXCEPT !.state = "pending", !.attempts = 0,
                !.updated_at = get_current_timestamp]

WithoutId(s, id) == SelectSeq(s, LAMBDA r : r.id # id)

(***************************************************************************)
(* Initial state: no store file exists yet (load_json gives []), no worker *)
(* is running and no command is in progress.                               *)
(***************************************************************************)
InitStores ==
    /\ jobsFile = <<>>
    /\ dlqFile = <<>>
    /\ clock = 0
    /\ wpc = [w \in Workers |-> "off"]
    /\ wcount = [w \in Workers |-> 0]
    /\ wjobs = [w \in Workers |-> <<>>]
    /\ wsel = [w \in Workers |-> <<>>]
    /\ wk = [w \in Workers |-> 0]
    /\ wdlq = [w \in Workers |-> <<>>]
    /\ wresult = [w \in Workers |-> "none"]
    /\ wdied = [w \in Workers |-> {}]
    /\ cpc = "idle"
    /\ cjob = NoJob
    /\ cjobs = <<>>
    /\ cdead = <<>>
    /\ cjson = NoJson
    /\ carg = 0
    /\ cout = "none"
    /\ issued = {}
    /\ h0jobs = <<>>
    /\ h0dlq = <<>>
    /\ battempts = 0
    /\ bbase = 1
    /\ bdelay = -1

\* Any number of CLI commands may follow.
Init == InitStores /\ cmdsLeft = -1

\* At most MaxCmds CLI commands follow.
InitRace == InitStores /\ cmdsLeft = MaxCmds

\* At most MaxRawCmds CLI commands follow.
InitRaw == InitStores /\ cmdsLeft = MaxRawCmds

\* One more CLI command is started.
StartCmd ==
    /\ cmdsLeft # 0
    /\ cmdsLeft' = IF cmdsLeft > 0 THEN cmdsLeft - 1 ELSE cmdsLeft

(***************************************************************************)
(* worker start --count N  (worker_start, lines 484-523)                   *)
(***************************************************************************)
\* lines 491-495: the loop is entered, by a first start or by a start after
\* the process was stopped
WorkerStart(w, count) ==
    /\ wpc[w] \in {"off", "stopped", "crashed"}
    /\ wpc' = [wpc EXCEPT ![w] = "load"]
    /\ wcount' = [wcount EXCEPT ![w] = count]
    /\ UNCHANGED <<jobsFile, dlqFile, clock, bvars, wjobs, wsel, wk, wdlq, wresult, wdied, cvars>>

\* lines 497-505: load_jobs, select; with nothing pending go to the idle wait.
\* (process_failed_jobs, lines 457-470, is defined but worker_start never calls
\* it: a failed record is not turned back into pending.)
WorkerLoad(w) ==
    /\ wpc[w] = "load"
    /\ LET jobs == jobsFile
           pending_jobs == PendingIdx(jobs)
       IN  IF pending_jobs = <<>>
           THEN /\ wpc' = [wpc EXCEPT ![w] = "wait"]
                /\ UNCHANGED <<wjobs, wsel, wk>>
           ELSE /\ wjobs' = [wjobs EXCEPT ![w] = jobs]
                /\ wsel' = [wsel EXCEPT ![w] = Selected(pending_jobs, wcount[w])]
                /\ wk' = [wk EXCEPT ![w] = 1]
                /\ wpc' = [wpc EXCEPT ![w] = "exec"]
    /\ UNCHANGED <<jobsFile, dlqFile, clock, bvars, wcount, wdlq, wresult, wdied, cvars>>

\* lines 504-505: time.sleep(2); continue
WorkerWait(w) ==
    /\ wpc[w] = "wait"
    /\ wpc' = [wpc EXCEPT ![w] = "load"]
    /\ UNCHANGED <<jobsFile, dlqFile, clock, bvars, wcount, wjobs, wsel, wk, wdlq, wresult, wdied, cvars>>

\* lines 508-510: one iteration of the for loop: mark processing, process_job
\* (which gets as far as subprocess.run: its messages, lines 380-381, are str
\* concatenations with the command)
WorkerExec(w) ==
    /\ wpc[w] = "exec"
    /\ wk[w] <= Len(wsel[w])
    /\ wjobs[w][wsel[w][wk[w]]].command \in Commands
    /\ LET i == wsel[w][wk[w]]
           job == [wjobs[w][i] EXCEPT !.state = "processing"]
       IN  \E result \in Outcomes(job.command) :
              /\ wjobs' = [wjobs EXCEPT ![w][i] = process_job(job, result)]
              /\ wresult' = [wresult EXCEPT ![w] = result]
              /\ wdied' = [wdied EXCEPT ![w] =
                              IF process_job(job, result).state = "dead"
                              THEN @ \cup {job.id} ELSE @]
    /\ wk' = [wk EXCEPT ![w] = @ + 1]
    /\ UNCHANGED <<jobsFile, dlqFile, clock, bvars, wpc, wcount, wsel, wdlq, cvars>>

\* line 381: "         Command: " + command raises TypeError when the command
\* is no string.  The statement is outside process_job's try and worker_start
\* catches KeyboardInterrupt only: the process ends with a traceback, nothing
\* of the cycle saved.
WorkerCrash(w) ==
    /\ wpc[w] = "exec"
    /\ wk[w] <= Len(wsel[w])
    /\ wjobs[w][wsel[w][wk[w]]].command \notin Commands
    /\ wpc' = [wpc EXCEPT ![w] = "crashed"]
    /\ wjobs' = [wjobs EXCEPT ![w] = <<>>]
    /\ wsel' = [wsel EXCEPT ![w] = <<>>]
    /\ wk' = [wk EXCEPT ![w] = 0]
    /\ wdlq' = [wdlq EXCEPT ![w] = <<>>]
    /\ wresult' = [wresult EXCEPT ![w] = "none"]
    /\ wdied' = [wdied EXCEPT ![w] = {}]
    /\ UNCHANGED <<jobsFile, dlqFile, clock, bvars, wcount, cvars>>

\* line 513: save_jobs(jobs)
WorkerSave(w) ==
    /\ wpc[w] = "exec"
    /\ wk[w] > Len(wsel[w])
    /\ jobsFile' = wjobs[w]
    /\ wpc' = [wpc EXCEPT ![w] = "reload"]
    /\ UNCHANGED <<dlqFile, clock, bvars, wcount, wjobs, wsel, wk, wdlq, wresult, wdied, cvars>>

\* line 514: jobs = load_jobs()
WorkerReload(w) ==
    /\ wpc[w] = "reload"
    /\ wjobs' = [wjobs EXCEPT ![w] = jobsFile]
    /\ wpc' = [wpc EXCEPT ![w] = "load_dlq"]
    /\ UNCHANGED <<jobsFile, dlqFile, clock, bvars, wcount, wsel, wk, wdlq, wresult, wdied, cvars>>

\* lines 444-451: move_dead_jobs loads the dlq and partitions jobs
WorkerLoadDlq(w) ==
    /\ wpc[w] = "load_dlq"
    /\ wdlq' = [wdlq EXCEPT ![w] = dlqFile \o DeadOf(wjobs[w])]
    /\ wjobs' = [wjobs EXCEPT ![w] = AliveOf(wjobs[w])]
    /\ wpc' = [wpc EXCEPT ![w] = "save_dlq"]
    /\ UNCHANGED <<jobsFile, dlqFile, clock, bvars, wcount, wsel, wk, wresult, wdied, cvars>>

\* line 453: save_dlq(dlq)
WorkerSaveDlq(w) ==
    /\ wpc[w] = "save_dlq"
    /\ dlqFile' = wdlq[w]
    /\ wpc' = [wpc EXCEPT ![w] = "save_alive"]
    /\ UNCHANGED <<jobsFile, clock, bvars, wcount, wjobs, wsel, wk, wdlq, wresult, wdied, cvars>>

\* line 516: save_jobs(jobs), jobs being the alive ones
WorkerSaveAlive(w) ==
    /\ wpc[w] = "save_alive"
    /\ jobsFile' = wjobs[w]
    /\ wpc' = [wpc EXCEPT ![w] = "sleep"]
    /\ UNCHANGED <<dlqFile, clock, bvars, wcount, wjobs, wsel, wk, wdlq, wresult, wdied, cvars>>

\* line 519: time.sleep(1), then the next cycle (the locals are dead values)
WorkerSleep(w) ==
    /\ wpc[w] = "sleep"
    /\ wpc' = [wpc EXCEPT ![w] = "load"]
    /\ wjobs' = [wjobs EXCEPT ![w] = <<>>]
    /\ wsel' = [wsel EXCEPT ![w] = <<>>]
    /\ wk' = [wk EXCEPT ![w] = 0]
    /\ wdlq' = [wdlq EXCEPT ![w] = <<>>]
    /\ wresult' = [wresult EXCEPT ![w] = "none"]
    /\ wdied' = [wdied EXCEPT ![w] = {}]
    /\ UNCHANGED <<jobsFile, dlqFile, clock, bvars, wcount, cvars>>

\* lines 521-523: KeyboardInterrupt, raised wherever the loop is (inside
\* subprocess.run too: process_job catches Exception, which it is not); the
\* handler prints and the process exits with its locals, writing nothing.
WorkerInterrupt(w) ==
    /\ wpc[w] \in {"load", "wait", "exec", "reload", "load_dlq", "save_dlq",
                   "save_alive", "sleep"}
    /\ wpc' = [wpc EXCEPT ![w] = "stopped"]
    /\ wjobs' = [wjobs EXCEPT ![w] = <<>>]
    /\ wsel' = [wsel EXCEPT ![w] = <<>>]
    /\ wk' = [wk EXCEPT ![w] = 0]
    /\ wdlq' = [wdlq EXCEPT ![w] = <<>>]
    /\ wresult' = [wresult EXCEPT ![w] = "none"]
    /\ wdied' = [wdied EXCEPT ![w] = {}]
    /\ UNCHANGED <<jobsFile, dlqFile, clock, bvars, wcount, cvars>>

(***************************************************************************)
(* enqueue JOB_JSON  (lines 89-135)                                        *)
(***************************************************************************)
\* The command ends without touching a store: json.JSONDecodeError (132),
\* another exception (134), or the missing 'command' (104-106).
EnqueueReject(j) ==
    /\ cpc' = "done"
    /\ cout' = "error"
    /\ UNCHANGED <<cjob, cjobs, issued>>

\* An id no job holds yet.  Ids are interchangeable, so the least unused one
\* stands for any of them.
FreshIds == {id \in Ids \ issued : \A k \in Ids \ issued : id <= k}

\* lines 96-124: parse, check, fill in the defaults, load_jobs.  The id is the
\* caller's, or a uuid4 nobody holds yet.
EnqueueBegin(j) ==
    /\ cpc = "idle"
    /\ StartCmd
    /\ cjson' = j
    /\ h0jobs' = jobsFile
    /\ h0dlq' = dlqFile
    /\ IF j.parse # "object" \/ ~HasCommand(j)
       THEN EnqueueReject(j)
       ELSE \E id \in (IF "id" \in j.has THEN {j.id} ELSE FreshIds) :
               /\ cjob' = BuildJob(j, id)
               /\ issued' = issued \cup {id}
               /\ cjobs' = jobsFile
               /\ cpc' = "enq_save"
               /\ cout' = "none"
    /\ UNCHANGED <<jobsFile, dlqFile, clock, bvars, wvars, cdead, carg>>

\* lines 125-134: jobs.append(job_data); save_jobs(jobs); "[OK] ...".  With a
\* command that is no string the message of line 129 raises after the save,
\* and line 134 reports the error.
EnqueueSave ==
    /\ cpc = "enq_save"
    /\ jobsFile' = Append(cjobs, cjob)
    /\ cpc' = "done"
    /\ cout' = IF cjob.command \in Commands THEN "ok" ELSE "error"
    /\ UNCHANGED <<dlqFile, clock, bvars, wvars, cjob, cjobs, cdead, cjson, carg, issued,
                   cmdsLeft, h0jobs, h0dlq>>

(***************************************************************************)
(* dlq retry JOB_ID  (lines 310-346)                                       *)
(***************************************************************************)
\* line 317: dead_jobs = load_dlq()
RetryBegin(job_id) ==
    /\ cpc = "idle"
    /\ StartCmd
    /\ carg' = job_id
    /\ h0jobs' = jobsFile
    /\ h0dlq' = dlqFile
    /\ cdead' = dlqFile
    /\ cpc' = "retry_load_jobs"
    /\ UNCHANGED <<jobsFile, dlqFile, clock, bvars, wvars, cjob, cjobs, cjson, cout, issued>>

\* lines 318-340: jobs = load_jobs(); find the job; reset it; append; filter
RetryLoadJobs ==
    /\ cpc = "retry_load_jobs"
    /\ IF ~HasId(cdead, carg)
       THEN /\ cpc' = "done"
            /\ cout' = "error"
            /\ UNCHANGED <<cjob, cjobs, cdead>>
       ELSE LET job_to_retry == RetryReset(FirstWithId(cdead, carg))
            IN  /\ cjob' = job_to_retry
                /\ cjobs' = Append(jobsFile, job_to_retry)
                /\ cdead' = WithoutId(cdead, carg)
                /\ cpc' = "retry_save_jobs"
                /\ cout' = "none"
    /\ UNCHANGED <<jobsFile, dlqFile, clock, bvars, wvars, cjson, carg, issued, cmdsLeft,
                   h0jobs, h0dlq>>

\* line 343: save_jobs(jobs)
RetrySaveJobs ==
    /\ cpc = "retry_save_jobs"
    /\ jobsFile' = cjobs
    /\ cpc' = "retry_save_dlq"
    /\ UNCHANGED <<dlqFile, clock, bvars, wvars, cjob, cjobs, cdead, cjson, carg, cout, issued,
                   cmdsLeft, h0jobs, h0dlq>>

\* lines 344-346: save_dlq(dead_jobs); "moved back to queue"
RetrySaveDlq ==
    /\ cpc = "retry_save_dlq"
    /\ dlqFile' = cdead
    /\ cpc' = "done"
    /\ cout' = "ok"
    /\ UNCHANGED <<jobsFile, clock, bvars, wvars, cjob, cjobs, cdead, cjson, carg, issued,
                   cmdsLeft, h0jobs, h0dlq>>

\* The command's process exits.
CmdExit ==
    /\ cpc = "done"
    /\ cpc' = "idle"
    /\ cjob' = NoJob
    /\ cjobs' = <<>>
    /\ cdead' = <<>>
    /\ cjson' = NoJson
    /\ carg' = 0
    /\ cout' = "none"
    /\ h0jobs' = <<>>
    /\ h0dlq' = <<>>
    /\ UNCHANGED <<jobsFile, dlqFile, clock, bvars, wvars, issued, cmdsLeft>>

(***************************************************************************)
(* calculate_backoff_delay(attempts, backoff_base)  (lines 363-369)        *)
(***************************************************************************)
\* The function is called with some attempts >= 0 and some backoff_base >= 1.
BackoffCall ==
    /\ bdelay = -1
    /\ \E attempts \in 0..MaxBackoffAttempts, backoff_base \in 1..MaxBackoffBase :
          /\ battempts' = attempts
          /\ bbase' = backoff_base
          /\ bdelay' = calculate_backoff_delay(attempts, backoff_base)
    /\ UNCHANGED <<jobsFile, dlqFile, clock, wvars, cvars>>

\* The caller is done with the value.
BackoffReturn ==
    /\ bdelay # -1
    /\ bdelay' = -1
    /\ UNCHANGED <<jobsFile, dlqFile, clock, wvars, cvars, battempts, bbase>>

(***************************************************************************)
(* Time passes: datetime.utcnow() reads a later time (line 76).            *)
(***************************************************************************)
Tick ==
    /\ clock < MaxClock
    /\ clock' = clock + 1
    /\ UNCHANGED <<jobsFile, dlqFile, wvars, cvars, bvars>>

(***************************************************************************)
(* Job descriptions the callers submit.                                    *)
(***************************************************************************)
\* Rejected descriptions: unparsable, not an object, or without 'command'.
InvalidJsons ==
    {Json("bad", {}, 0, "", "", 0, 0), Json("nonobject", {}, 0, "", "", 0, 0),
     Json("object", {}, 0, "", "", 0, 0)}
    \cup {Json("object", {"id"}, id, "", "", 0, 0) : id \in Ids}

\* What the submission interface documents: command, optionally id, max_retries.
PlainJsons ==
    {Json("object", {"command"}, 0, c, "", 0, 0) : c \in Commands}
    \cup {Json("object", {"command", "id"}, id, c, "", 0, 0) :
            id \in Ids, c \in Commands}
    \cup {Json("object", {"command", "max_retries"}, 0, c, "", 0, m) :
            c \in Commands, m \in 1..MaxRetriesIn}
    \cup {Json("object", {"command", "id", "max_retries"}, id, c, "", 0, m) :
            id \in Ids, c \in Commands, m \in 1..MaxRetriesIn}

\* What enqueue accepts besides: attempts and max_retries (0 too), taken as
\* given (lines 111-115 fill in only the keys that are missing).
RawJsons ==
    {Json("object", {"command", "id", "attempts"}, id, c, "", a, 0) :
        id \in Ids, c \in Commands, a \in 0..MaxAttemptsIn}
    \cup {Json("object", {"command", "id", "attempts", "max_retries"}, id, c, "", a, m) :
        id \in Ids, c \in Commands, a \in 0..MaxAttemptsIn, m \in 0..MaxRetriesIn}

\* Descriptions in which the caller supplies state or attempts (lines 109-112
\* keep them as given).
StateJsons ==
    {Json("object", {"command", "state"}, 0, c, s, 0, 0) :
        c \in Commands, s \in States}
    \cup {Json("object", {"command", "attempts"}, 0, c, "", a, 0) :
        c \in Commands, a \in 0..MaxAttemptsIn}

\* Descriptions with a caller-chosen id, whether or not a job holds it already
\* (line 101 only asks whether the key is there).
IdJsons ==
    {Json("object", {"command", "id", "max_retries"}, id, c, "", 0, m) :
        id \in Ids, c \in Commands, m \in 1..MaxRetriesIn}

\* Descriptions with a command and a retry budget, the id left to enqueue.
BudgetJsons ==
    {Json("object", {"command", "max_retries"}, 0, c, "", 0, m) :
        c \in Commands, m \in 1..MaxRetriesIn}

\* Descriptions whose command is no string, e.g. {"command": 5}.
TypedJsons ==
    {Json("object", {"command"}, 0, NotAString, "", 0, 0)}
    \cup {Json("object", {"command", "max_retries"}, 0, NotAString, "", 0, m) :
            m \in 1..MaxRetriesIn}

\* The caller's id is one no job holds yet.
NewId(j) == "id" \in j.has => j.id \in FreshIds

(***************************************************************************)
(* Specifications.                                                         *)
(***************************************************************************)
EnqueuePlain == \E j \in InvalidJsons \cup PlainJsons : NewId(j) /\ EnqueueBegin(j)

EnqueueRaw == \E j \in RawJsons : NewId(j) /\ EnqueueBegin(j)

EnqueueOpen == \E j \in StateJsons \cup IdJsons : EnqueueBegin(j)

EnqueueBudget == \E j \in BudgetJsons : EnqueueBegin(j)

EnqueueTyped == \E j \in TypedJsons \cup PlainJsons : NewId(j) /\ EnqueueBegin(j)

DlqRetry == \E job_id \in Ids : RetryBegin(job_id)

\* A step of the worker loop.
WorkerStep(w) ==
    \/ WorkerLoad(w)
    \/ WorkerWait(w)
    \/ WorkerExec(w)
    \/ WorkerSave(w)
    \/ WorkerReload(w)
    \/ WorkerLoadDlq(w)
    \/ WorkerSaveDlq(w)
    \/ WorkerSaveAlive(w)
    \/ WorkerSleep(w)

\* The worker is between cycles (or not running).
Quiescent ==
    \A w \in Workers : wpc[w] \in {"off", "stopped", "crashed", "load", "wait", "sleep"}

\* No CLI command is in progress.
NoCmd == cpc = "idle"

\* One worker loop and the CLI commands, no command overlapping a worker
\* cycle: a command runs while the worker is between cycles, and a cycle runs
\* while no command is in progress.
Next ==
    \/ \E count \in 1..MaxCount : WorkerStart("w1", count)
    \/ NoCmd /\ WorkerLoad("w1")
    \/ NoCmd /\ WorkerWait("w1")
    \/ NoCmd /\ WorkerExec("w1")
    \/ NoCmd /\ WorkerSave("w1")
    \/ NoCmd /\ WorkerReload("w1")
    \/ NoCmd /\ WorkerLoadDlq("w1")
    \/ NoCmd /\ WorkerSaveDlq("w1")
    \/ NoCmd /\ WorkerSaveAlive("w1")
    \/ NoCmd /\ WorkerSleep("w1")
    \/ Quiescent /\ EnqueuePlain
    \/ Quiescent /\ DlqRetry
    \/ Quiescent /\ EnqueueSave
    \/ Quiescent /\ RetryLoadJobs
    \/ Quiescent /\ RetrySaveJobs
    \/ Quiescent /\ RetrySaveDlq
    \/ Quiescent /\ CmdExit

Spec == Init /\ [][Next]_vars

\* One worker loop and at most MaxCmds CLI commands, one at a time, their
\* file accesses interleaved with the worker's in any order.
NextRace ==
    \/ \E count \in 1..MaxCount : WorkerStart("w1", count)
    \/ WorkerLoad("w1")
    \/ WorkerWait("w1")
    \/ WorkerExec("w1")
    \/ WorkerSave("w1")
    \/ WorkerReload("w1")
    \/ WorkerLoadDlq("w1")
    \/ WorkerSaveDlq("w1")
    \/ WorkerSaveAlive("w1")
    \/ WorkerSleep("w1")
    \/ EnqueuePlain
    \/ DlqRetry
    \/ EnqueueSave
    \/ RetryLoadJobs
    \/ RetrySaveJobs
    \/ RetrySaveDlq
    \/ CmdExit

SpecRace == InitRace /\ [][NextRace]_vars

\* As Spec, with the worker started with --count MaxCount and at most
\* MaxRawCmds commands, whose callers also supply attempts and max_retries.
NextRaw ==
    \/ WorkerStart("w1", MaxCount)
    \/ NoCmd /\ WorkerLoad("w1")
    \/ NoCmd /\ WorkerWait("w1")
    \/ NoCmd /\ WorkerExec("w1")
    \/ NoCmd /\ WorkerSave("w1")
    \/ NoCmd /\ WorkerReload("w1")
    \/ NoCmd /\ WorkerLoadDlq("w1")
    \/ NoCmd /\ WorkerSaveDlq("w1")
    \/ NoCmd /\ WorkerSaveAlive("w1")
    \/ NoCmd /\ WorkerSleep("w1")
    \/ Quiescent /\ EnqueueRaw
    \/ Quiescent /\ DlqRetry
    \/ Quiescent /\ EnqueueSave
    \/ Quiescent /\ RetryLoadJobs
    \/ Quiescent /\ RetrySaveJobs
    \/ Quiescent /\ RetrySaveDlq
    \/ Quiescent /\ CmdExit

SpecRaw == InitRaw /\ [][NextRaw]_vars

\* As SpecRaw, with callers that supply state and attempts, or an id of their
\* choice that a stored job may hold already.
NextOpen ==
    \/ WorkerStart("w1", MaxCount)
    \/ NoCmd /\ WorkerLoad("w1")
    \/ NoCmd /\ WorkerWait("w1")
    \/ NoCmd /\ WorkerExec("w1")
    \/ NoCmd /\ WorkerSave("w1")
    \/ NoCmd /\ WorkerReload("w1")
    \/ NoCmd /\ WorkerLoadDlq("w1")
    \/ NoCmd /\ WorkerSaveDlq("w1")
    \/ NoCmd /\ WorkerSaveAlive("w1")
    \/ NoCmd /\ WorkerSleep("w1")
    \/ Quiescent /\ EnqueueOpen
    \/ Quiescent /\ DlqRetry
    \/ Quiescent /\ EnqueueSave
    \/ Quiescent /\ RetryLoadJobs
    \/ Quiescent /\ RetrySaveJobs
    \/ Quiescent /\ RetrySaveDlq
    \/ Quiescent /\ CmdExit

SpecOpen == InitRaw /\ [][NextOpen]_vars

\* As Spec with at most MaxCmds commands, and the operator stopping the worker
\* with an interrupt at any point of its loop and starting it again.
NextStop ==
    \/ \E count \in 1..MaxCount : WorkerStart("w1", count)
    \/ NoCmd /\ WorkerLoad("w1")
    \/ NoCmd /\ WorkerWait("w1")
    \/ NoCmd /\ WorkerExec("w1")
    \/ NoCmd /\ WorkerSave("w1")
    \/ NoCmd /\ WorkerReload("w1")
    \/ NoCmd /\ WorkerLoadDlq("w1")
    \/ NoCmd /\ WorkerSaveDlq("w1")
    \/ NoCmd /\ WorkerSaveAlive("w1")
    \/ NoCmd /\ WorkerSleep("w1")
    \/ NoCmd /\ WorkerInterrupt("w1")
    \/ Quiescent /\ EnqueuePlain
    \/ Quiescent /\ DlqRetry
    \/ Quiescent /\ EnqueueSave
    \/ Quiescent /\ RetryLoadJobs
    \/ Quiescent /\ RetrySaveJobs
    \/ Quiescent /\ RetrySaveDlq
    \/ Quiescent /\ CmdExit

SpecStop == InitRace /\ [][NextStop]_vars

\* One worker loop, started again whenever it has ended, and enqueue commands
\* whose command may be any JSON value, no command overlapping a worker cycle.
NextTyped ==
    \/ \E count \in 1..MaxCount : WorkerStart("w1", count)
    \/ NoCmd /\ WorkerLoad("w1")
    \/ NoCmd /\ WorkerWait("w1")
    \/ NoCmd /\ WorkerExec("w1")
    \/ NoCmd /\ WorkerCrash("w1")
    \/ NoCmd /\ WorkerSave("w1")
    \/ NoCmd /\ WorkerReload("w1")
    \/ NoCmd /\ WorkerLoadDlq("w1")
    \/ NoCmd /\ WorkerSaveDlq("w1")
    \/ NoCmd /\ WorkerSaveAlive("w1")
    \/ NoCmd /\ WorkerSleep("w1")
    \/ NoCmd /\ WorkerInterrupt("w1")
    \/ Quiescent /\ EnqueueTyped
    \/ Quiescent /\ EnqueueSave
    \/ Quiescent /\ CmdExit

SpecTyped == Init /\ [][NextTyped]_vars

\* As Spec with at most MaxRawCmds commands, the worker started with --count
\* MaxCount, and time passing between any two steps.
NextClock ==
    \/ WorkerStart("w1", MaxCount)
    \/ NoCmd /\ WorkerLoad("w1")
    \/ NoCmd /\ WorkerWait("w1")
    \/ NoCmd /\ WorkerExec("w1")
    \/ NoCmd /\ WorkerSave("w1")
    \/ NoCmd /\ WorkerReload("w1")
    \/ NoCmd /\ WorkerLoadDlq("w1")
    \/ NoCmd /\ WorkerSaveDlq("w1")
    \/ NoCmd /\ WorkerSaveAlive("w1")
    \/ NoCmd /\ WorkerSleep("w1")
    \/ Quiescent /\ EnqueueBudget
    \/ Quiescent /\ DlqRetry
    \/ Quiescent /\ EnqueueSave
    \/ Quiescent /\ RetryLoadJobs
    \/ Quiescent /\ RetrySaveJobs
    \/ Quiescent /\ RetrySaveDlq
    \/ Quiescent /\ CmdExit
    \/ Tick

SpecClock == InitRaw /\ [][NextClock]_vars

\* Calls of calculate_backoff_delay, one after the other, on every pair of
\* arguments in the bounded range.
NextBackoff ==
    \/ BackoffCall
    \/ BackoffReturn

SpecBackoff == Init /\ [][NextBackoff]_vars

\* One worker loop and enqueue commands, no operator action (no dlq retry),
\* no command overlapping a worker cycle.  The worker is a process of its own
\* that keeps running whatever commands are issued (strong fairness: in this
\* serialised view a command in progress holds the worker back for a moment);
\* a command that was started runs to its end.
NextFair ==
    \/ \E count \in 1..MaxCount : WorkerStart("w1", count)
    \/ NoCmd /\ WorkerLoad("w1")
    \/ NoCmd /\ WorkerWait("w1")
    \/ NoCmd /\ WorkerExec("w1")
    \/ NoCmd /\ WorkerSave("w1")
    \/ NoCmd /\ WorkerReload("w1")
    \/ NoCmd /\ WorkerLoadDlq("w1")
    \/ NoCmd /\ WorkerSaveDlq("w1")
    \/ NoCmd /\ WorkerSaveAlive("w1")
    \/ NoCmd /\ WorkerSleep("w1")
    \/ Quiescent /\ EnqueuePlain
    \/ Quiescent /\ EnqueueSave
    \/ Quiescent /\ CmdExit

SpecFair ==
    /\ Init
    /\ [][NextFair]_vars
    /\ SF_vars(NoCmd /\ WorkerStep("w1"))
    /\ WF_vars(Quiescent /\ (EnqueueSave \/ CmdExit))

(***************************************************************************)
(* Properties.                                                             *)
(***************************************************************************)
\* The records of both stores.
Stored == {jobsFile[i] : i \in 1..Len(jobsFile)} \cup {dlqFile[i] : i \in 1..Len(dlqFile)}

InJobs(id) == \E i \in 1..Len(jobsFile) : jobsFile[i].id = id
InDlq(id) == \E i \in 1..Len(dlqFile) : dlqFile[i].id = id

\* Ids whose enqueue has saved its record.
Accepted == issued \ (IF cpc = "enq_save" THEN {cjob.id} ELSE {})

\* C1: process_job follows the transition table.  On every execution step the
\* selected job was pending; exit status 0 gives completed with attempts
\* unchanged; a non-zero exit, a timeout or a runner fault adds exactly 1 to
\* attempts and gives failed when the new attempts < max_retries, dead when
\* the new attempts >= max_retries (so a timeout gives what a non-zero exit
\* gives); id, command and max_retries stay as they were.
C1_TransitionTable ==
    [][\A w \in Workers :
         (wpc[w] = "exec" /\ wk'[w] = wk[w] + 1) =>
            LET i == wsel[w][wk[w]]
                before == wjobs[w][i]
                after == wjobs'[w][i]
                result == wresult'[w]
            IN  /\ before.state = "pending"
                /\ result \in Results
                /\ after.id = before.id
                /\ after.command = before.command
                /\ after.max_retries = before.max_retries
                /\ result = "exit0" =>
                     after.state = "completed" /\ after.attempts = before.attempts
                /\ result \in {"nonzero", "timeout", "fault"} =>
                     /\ after.attempts = before.attempts + 1
                     /\ before.attempts + 1 < before.max_retries => after.state = "failed"
                     /\ before.attempts + 1 >= before.max_retries => after.state = "dead"
                /\ \A k \in 1..Len(wjobs[w]) : k # i => wjobs'[w][k] = wjobs[w][k]
      ]_vars

\* C1 witness: a job that already had a failed attempt on record timed out and
\* went dead at its max_retries.
C1_Witness ==
    \E w \in Workers :
        /\ wpc[w] = "exec"
        /\ wk[w] > 1
        /\ wresult[w] = "timeout"
        /\ LET job == wjobs[w][wsel[w][wk[w] - 1]]
           IN  job.state = "dead" /\ job.attempts = 2 /\ job.max_retries = 2

\* C2: every record of the Job Store has attempts <= max_retries, and one
\* whose attempts has reached max_retries is dead.
C2_AttemptsWithinBudget ==
    \A i \in 1..Len(jobsFile) :
        /\ jobsFile[i].attempts <= jobsFile[i].max_retries
        /\ jobsFile[i].attempts >= jobsFile[i].max_retries => jobsFile[i].state = "dead"

C4_ReconcileOneStore ==
    \A w \in Workers :
        wpc[w] \in {"reload", "load_dlq", "save_dlq", "save_alive", "sleep"} =>
            \A id \in Accepted : InJobs(id) # InDlq(id)

\* C5: when the worker finishes a cycle's reconciliation the jobs that went
\* dead in the cycle are in the Dead-Letter Store and not in the Job Store, and
\* while it is at its inter-cycle sleep the Job Store holds no dead record.
C5_DeadMovedBySameCycle ==
    [][\A w \in Workers :
         wpc'[w] = "sleep" =>
            /\ \A i \in 1..Len(jobsFile') : jobsFile'[i].state # "dead"
            /\ wpc[w] = "save_alive" =>
                 \A id \in wdied[w] :
                    /\ \E i \in 1..Len(dlqFile') :
                          dlqFile'[i].id = id /\ dlqFile'[i].state = "dead"
                    /\ \A i \in 1..Len(jobsFile') : jobsFile'[i].id # id]_vars

\* C5 witness: the worker is at its sleep after a cycle in which a job went
\* dead, and another job is still in the Job Store.
C5_Witness ==
    \E w \in Workers :
        /\ wpc[w] = "sleep"
        /\ wdied[w] # {}
        /\ jobsFile # <<>>
        /\ dlqFile # <<>>

\* C6: with a worker running, a job whose command fails on every execution
\* ends in the Dead-Letter Store, dead, with attempts = max_retries.
C6_FailingJobReachesDlq ==
    \A id \in Ids :
        (wpc["w1"] # "off" /\ \E i \in 1..Len(jobsFile) :
              jobsFile[i].id = id /\ jobsFile[i].command = "false")
        ~> (\E i \in 1..Len(dlqFile) :
              /\ dlqFile[i].id = id
              /\ dlqFile[i].state = "dead"
              /\ dlqFile[i].attempts = dlqFile[i].max_retries)

\* C7: with a worker running with count >= 1, every job that is pending in the
\* Job Store is eventually executed: its record gets the state process_job
\* gives it.
C7_PendingEventuallyExecuted ==
    \A id \in Ids :
        (wpc["w1"] # "off" /\ wcount["w1"] >= 1 /\ \E i \in 1..Len(jobsFile) :
              jobsFile[i].id = id /\ jobsFile[i].state = "pending")
        ~> (\E r \in Stored :
              r.id = id /\ r.state \in {"completed", "failed", "dead"})

\* C7 witness: a worker with count 1 has executed the second job of the store,
\* which was pending behind the first.
C7_Witness ==
    /\ wcount["w1"] = 1
    /\ Len(jobsFile) = 2
    /\ jobsFile[1].state \in {"completed", "failed"}
    /\ jobsFile[2].state \in {"completed", "failed"}

\* C8: when dlq retry of an id in the Dead-Letter Store has completed, the Job
\* Store is what it was plus that record with state pending and attempts 0, and
\* the Dead-Letter Store is what it was without the id; dlq retry of an id
\* not in the Dead-Letter Store reports an error and leaves both stores as
\* they were.
C8_RequeueResult ==
    (cpc = "done" /\ carg # 0) =>
        IF \E i \in 1..Len(h0dlq) : h0dlq[i].id = carg
        THEN /\ cout = "ok"
             /\ Len(jobsFile) = Len(h0jobs) + 1
             /\ SubSeq(jobsFile, 1, Len(h0jobs)) = h0jobs
             /\ LET new == jobsFile[Len(jobsFile)]
                IN  /\ new.id = carg
                    /\ new.state = "pending"
                    /\ new.attempts = 0
                    /\ \E i \in 1..Len(h0dlq) :
                          /\ h0dlq[i].id = carg
                          /\ new.command = h0dlq[i].command
                          /\ new.max_retries = h0dlq[i].max_retries
                          /\ new.created_at = h0dlq[i].created_at
             /\ dlqFile = SelectSeq(h0dlq, LAMBDA r : r.id # carg)
             /\ ~InDlq(carg)
        ELSE /\ cout = "error"
             /\ jobsFile = h0jobs
             /\ dlqFile = h0dlq

\* C8 witness: a requeue has completed with another record in the Job Store.
C8_Witness ==
    /\ cpc = "done" /\ carg # 0 /\ cout = "ok"
    /\ Len(jobsFile) >= 2

\* C9: at no point of a dlq retry of an id in the Dead-Letter Store is the id
\* in both stores or in neither.
C9_RequeueOneStore ==
    (/\ cpc \in {"retry_load_jobs", "retry_save_jobs", "retry_save_dlq", "done"}
     /\ carg # 0
     /\ \E i \in 1..Len(h0dlq) : h0dlq[i].id = carg)
    => (InJobs(carg) # InDlq(carg))

\* C10: an enqueue whose job description does not parse, is no object or has
\* no command ends with an error and both stores as they were.
C10_RejectedEnqueueWritesNothing ==
    (cjson # NoJson /\ (cjson.parse # "object" \/ "command" \notin cjson.has)) =>
        /\ cpc = "done"
        /\ cout = "error"
        /\ jobsFile = h0jobs
        /\ dlqFile = h0dlq

\* C10 witness: a description without command was rejected while both stores
\* held records.
C10_Witness ==
    /\ cpc = "done" /\ cout = "error"
    /\ cjson.parse = "object" /\ "command" \notin cjson.has
    /\ jobsFile # <<>>
    /\ dlqFile # <<>>

\* C11: every record enqueue adds to the Job Store has state pending and
\* attempts 0 and carries id, command, max_retries, created_at and updated_at,
\* whatever state or attempts the caller's description holds.
C11_EnqueuedPendingZero ==
    (cpc = "done" /\ cjson # NoJson /\ cout = "ok") =>
        /\ jobsFile = Append(h0jobs, cjob)
        /\ DOMAIN cjob = {"id", "command", "state", "attempts", "max_retries",
                          "created_at", "updated_at"}
        /\ cjob.id \in Ids
        /\ cjob.command \in Commands
        /\ cjob.state = "pending"
        /\ cjob.attempts = 0

\* The records of the Job Store followed by those of the Dead-Letter Store.
AllRecords == jobsFile \o dlqFile

\* C12: no two records of the Job Store and the Dead-Letter Store together
\* have the same id.
C12_UniqueIds ==
    \A i, k \in 1..Len(AllRecords) : i # k => AllRecords[i].id # AllRecords[k].id

\* C13: completed is terminal.  Once the Job Store holds a job as completed, no
\* step stores another state or another attempts for it, and no worker
\* executes it while the store holds it as completed.
C13_CompletedTerminal ==
    [][\A i \in 1..Len(jobsFile) :
         jobsFile[i].state = "completed" =>
            /\ \A k \in 1..Len(jobsFile') :
                  jobsFile'[k].id = jobsFile[i].id =>
                     /\ jobsFile'[k].state = "completed"
                     /\ jobsFile'[k].attempts = jobsFile[i].attempts
            /\ \A w \in Workers :
                  (wpc[w] = "exec" /\ wk'[w] = wk[w] + 1) =>
                     wjobs[w][wsel[w][wk[w]]].id # jobsFile[i].id
      ]_vars

\* C14: when an interrupt stops the worker loop, wherever in a cycle it is,
\* the stores it leaves have every accepted id in exactly one of the Job Store
\* and the Dead-Letter Store, and no dead record in the Job Store.
C14_InterruptLeavesConsistent ==
    [][\A w \in Workers :
         (wpc[w] # "stopped" /\ wpc'[w] = "stopped") =>
            /\ \A id \in Accepted : InJobs(id) # InDlq(id)
            /\ \A i \in 1..Len(jobsFile) : jobsFile[i].state # "dead"
      ]_vars

\* C19: no accepted job is lost.  After every step, each id whose enqueue has
\* saved its record is in the Job Store or in the Dead-Letter Store, and an id
\* that a step takes out of the Job Store is in the Dead-Letter Store.
C19_NoAcceptedJobLost ==
    [][/\ \A id \in Accepted' : InJobs(id)' \/ InDlq(id)'
       /\ \A id \in Ids : (InJobs(id) /\ ~InJobs(id)') => InDlq(id)'
      ]_vars

\* C20: the Dead-Letter Store never holds two records with the same id.
C20_DeadLetteredOnce ==
    \A i, k \in 1..Len(dlqFile) : i # k => dlqFile[i].id # dlqFile[k].id

\* C15: calculate_backoff_delay(attempts, base) is base^attempts for attempts
\* >= 0 and base >= 1; so it is at least 1, and it is 1 for attempts 0
\* whatever the base.
C15_BackoffIsPower ==
    bdelay # -1 =>
        /\ bdelay = bbase ^ battempts
        /\ bdelay >= 1
        /\ battempts = 0 => bdelay = 1

\* C15 witness: the function has returned 8 for attempts 3 and base 2.
C15_Witness ==
    /\ battempts = 3
    /\ bbase = 2
    /\ bdelay = 8

\* C16: the jobs a worker cycle executes are the first min(count, number of
\* pending jobs) pending records of the Job Store, in store order.  The cycle
\* selects, from the store as it loads it, only pending records, at most count
\* of them and exactly min(count, number pending), in store order, skipping no
\* pending record stored before a selected one; it then executes the selected
\* records one by one, in that order, each still pending in its copy, and
\* saves only when all of them were executed.
C16_FirstPendingInOrder ==
    [][\A w \in Workers :
         /\ (wpc[w] = "load" /\ wpc'[w] = "exec") =>
               LET sel == wsel'[w]
                   pending == {i \in 1..Len(jobsFile) : jobsFile[i].state = "pending"}
               IN  /\ wjobs'[w] = jobsFile
                   /\ wk'[w] = 1
                   /\ \A k \in 1..Len(sel) : sel[k] \in pending
                   /\ \A k \in 1..(Len(sel) - 1) : sel[k] < sel[k + 1]
                   /\ Len(sel) <= wcount[w]
                   /\ Len(sel) = Min(wcount[w], Cardinality(pending))
                   /\ \A i \in pending : \A k \in 1..Len(sel) :
                         i < sel[k] => \E m \in 1..Len(sel) : sel[m] = i
         /\ (wpc[w] = "exec" /\ wpc'[w] = "exec" /\ wk'[w] # wk[w]) =>
               /\ wk[w] \in 1..Len(wsel[w])
               /\ wk'[w] = wk[w] + 1
               /\ wsel'[w] = wsel[w]
               /\ wjobs[w][wsel[w][wk[w]]].state = "pending"
               /\ wjobs'[w][wsel[w][wk[w]]].state \in {"completed", "failed", "dead"}
               /\ \A i \in 1..Len(wjobs[w]) :
                     i # wsel[w][wk[w]] => wjobs'[w][i] = wjobs[w][i]
         /\ (wpc[w] = "exec" /\ wpc'[w] = "reload") => wk[w] = Len(wsel[w]) + 1
      ]_vars

\* C16 witness: a worker with count 1 found two pending records, has executed
\* the first and leaves the second for a later cycle.
C16_Witness ==
    \E w \in Workers :
        /\ wpc[w] = "exec"
        /\ wcount[w] = 1
        /\ Len(wjobs[w]) = 2
        /\ wjobs[w][1].state \in {"completed", "failed", "dead"}
        /\ wjobs[w][2].state = "pending"
        /\ wsel[w] = <<1>>
        /\ wk[w] = 2

\* The positions of worker_start's while loop.
InLoop(w) ==
    wpc[w] \in {"load", "wait", "exec", "reload", "load_dlq", "save_dlq",
               "save_alive", "sleep"}

\* C17: no per-job outcome stops the worker loop.  Whatever the execution of a
\* selected job gives, the worker stays in its loop, and the only step that
\* takes a worker out of the loop is the interrupt.
C17_OnlyInterruptEndsLoop ==
    [][\A w \in Workers :
         InLoop(w) => (InLoop(w)' \/ wpc'[w] = "stopped")]_vars

\* C18: every operation that changes a record's state sets the record's
\* updated_at to the time of the change: the execution of a job (completed,
\* failed or dead, after an exit status, a timeout or a runner fault) and the
\* requeue (pending).  No step changes the created_at of a stored record.
C18_StateChangeSetsUpdatedAt ==
    [][/\ \A w \in Workers :
            (wpc[w] = "exec" /\ wpc'[w] = "exec" /\ wk'[w] = wk[w] + 1) =>
               LET before == wjobs[w][wsel[w][wk[w]]]
                   after == wjobs'[w][wsel[w][wk[w]]]
               IN  /\ after.state # before.state
                   /\ after.updated_at = clock
                   /\ after.created_at = before.created_at
       /\ (cpc = "retry_load_jobs" /\ cpc' = "retry_save_jobs") =>
               /\ cjob'.state = "pending"
               /\ cjob'.updated_at = clock
               /\ cjob'.created_at = FirstWithId(cdead, carg).created_at
       /\ \A r \in Stored : \A r2 \in Stored' :
               r2.id = r.id => r2.created_at = r.created_at
      ]_vars

\* C21: with jobs enqueued without a caller-supplied state, no record of the
\* Job Store file has state processing, whatever point of a cycle an
\* interrupt or a crash ends the worker at.
C21_NoProcessingInStore ==
    \A i \in 1..Len(jobsFile) : jobsFile[i].state # "processing"

\* C21 witness: a worker with count 1 executed and saved the first job in one
\* cycle, marked the second one processing in the next and crashed on it;
\* the store holds the second job as pending.
C21_Witness ==
    /\ wpc["w1"] = "crashed"
    /\ wcount["w1"] = 1
    /\ Len(jobsFile) = 2
    /\ jobsFile[1].state \in {"completed", "failed"}
    /\ jobsFile[2].state = "pending"
    /\ jobsFile[2].command = NotAString

=============================================================================
